---- MODULE Spec2Model ----
(***************************************************************************)
(* A model of the AstroPix control session: the configuration register     *)
(* model and scan-chain serializer (modules/asic.py, class Asic) and the   *)
(* run-control sequencing around it (astropix.py, class astropixRun).      *)
(*                                                                         *)
(* Python integers are unbounded.  A field value is represented by the set *)
(* of the positions of its 1 bits, so that x | m is a union, x & m an      *)
(* intersection and x & ~m a set difference, at any word width.            *)
(***************************************************************************)
EXTENDS Integers, Sequences, FiniteSets, TLC

VARIABLES
  session,      \* "none" before astropixRun(...), then "open" or "offline";
                \* "dead" when the constructor raised, "exited" after sys.exit
  asicStart,    \* self._asic_start: "unset", "false" or "true"
  asicObj,      \* self.asic exists
  asic_config,  \* self.asic.asic_config
  num_cols,     \* self.asic._num_cols
  num_rows,     \* self.asic._num_rows
  injection,    \* self.injection_col, self.injection_row
  wire,         \* the bits last handed to the transport
  budget,       \* calls the session may still make
  inits,        \* calls of asic_init made
  lastOp,       \* the last call: its arguments, the model before it, its outcome
  lastEnable,   \* the last call, when it was an enable_pixel that wrote a word
  exported      \* the file write_conf_to_yaml wrote, and the model it wrote it from

vars == <<session, asicStart, asicObj, asic_config, num_cols, num_rows,
          injection, wire, budget, inits, lastOp, lastEnable, exported>>

(* ------------------------------ bounds -------------------------------- *)

\* calls made on a session after construction, asic_init not counted
MaxOps == 2
\* calls made on a session that starts with its configuration loaded
MaxLoadedOps == 3
\* calls of asic_init in one session
MaxInits == 1
\* row and column arguments are drawn from 0..MaxIdx
MaxIdx == 2

(* ------------------------- program constants -------------------------- *)

\* Asic.__init__: self._num_rows = 35, self._num_cols = 35
DefaultRows == 35
DefaultCols == 35

\* the int n as a set of bit positions (n < 64)
ToBits(n) == {i \in 0..5 : (n \div (2^i)) % 2 = 1}

\* 0b001_11111_11111_11111_11111_11111_11111_11110
DefaultWord == 1..35
\* 0b000_00000_00000_00000_00000_00000_00000_00001
InjRowMask == {0}
\* 0b010_00000_00000_00000_00000_00000_00000_00000
InjColMask == {36}
\* 0b100_00000_00000_00000_00000_00000_00000_00000
AmpoutMask == {37}
\* 0b011_11111_11111_11111_11111_11111_11111_11111
AmpoutClearMask == 0..36
\* 0b111_11111_11111_11111_11111_11111_11111_11110
InjRowClearMask == 1..37
\* 0b101_11111_11111_11111_11111_11111_11111_11111
InjColClearMask == (0..35) \cup {37}

\* f'col{i}'
ColKey(i) ==
  CASE i = 0 -> "col0"
    [] i = 1 -> "col1"
    [] i = 2 -> "col2"
    [] i = 3 -> "col3"
    [] i = 4 -> "col4"
    [] OTHER -> "colN"

(* ------------------------ the register model -------------------------- *)

\* asic_config is None, or a dict block name -> dict field name -> [width, value];
\* python dicts keep insertion order, so both levels are sequences.
NoConfig == [none |-> TRUE, blocks |-> <<>>]

Fld(n, w, v) == [name |-> n, width |-> w, value |-> v]

Blk(n, fs) == [name |-> n, fields |-> fs]

\* index of the entry called key in a sequence of named entries, 0 when absent
IndexOf(seq, key) ==
  IF \E i \in 1..Len(seq) : seq[i].name = key
  THEN CHOOSE i \in 1..Len(seq) : seq[i].name = key
  ELSE 0

\* value fits BitArray(uint=value, length=nbits)
Fits(value, nbits) == nbits > 0 /\ \A b \in value : b < nbits

\* the state an operation runs on: the model, the geometry, what the call
\* did so far (ev), the exception that ended it (err), the bits last handed
\* to the transport, and whether self.nexys (nexys) and self.asic (obj) exist
Exec(cfg, cols, rows, w, nexys, obj) ==
  [cfg |-> cfg, cols |-> cols, rows |-> rows, ev |-> <<>>, err |-> "none", wire |-> w,
   nexys |-> nexys, obj |-> obj]

Raise(m, e) == [m EXCEPT !.err = e]

Event(m, e) == [m EXCEPT !.ev = Append(@, e)]

\* the field taken out of its block and put back at the end with value v
SetValue_reinserting(m, bname, fname, v) ==
  IF m.err # "none" THEN m
  ELSE IF m.cfg.none THEN Raise(m, "TypeError")
  ELSE LET b == IndexOf(m.cfg.blocks, bname) IN
    IF b = 0 THEN Raise(m, "KeyError")
    ELSE LET fs == m.cfg.blocks[b].fields
             f == IndexOf(fs, fname) IN
      IF f = 0 THEN Raise(m, "KeyError")
      ELSE Event([m EXCEPT !.cfg.blocks[b].fields =
                    Append(SubSeq(fs, 1, f - 1) \o SubSeq(fs, f + 1, Len(fs)),
                           [fs[f] EXCEPT !.value = v])],
                 "set")

\* asic_config[bname][fname][1] = v
SetValue(m, bname, fname, v) ==
  IF m.err # "none" THEN m
  ELSE IF m.cfg.none THEN Raise(m, "TypeError")
  ELSE LET b == IndexOf(m.cfg.blocks, bname) IN
    IF b = 0 THEN Raise(m, "KeyError")
    ELSE LET f == IndexOf(m.cfg.blocks[b].fields, fname) IN
      IF f = 0 THEN Raise(m, "KeyError")
      ELSE Event([m EXCEPT !.cfg.blocks[b].fields[f].value = v], "set")

\* asic_config['recconfig'].get(key, default)[1]: the default is an int, and
\* an int (like the None of a get without default) has no [1]
RecGet(cfg, key) ==
  IF cfg.none THEN [err |-> "TypeError", v |-> {}]
  ELSE LET b == IndexOf(cfg.blocks, "recconfig") IN
    IF b = 0 THEN [err |-> "KeyError", v |-> {}]
    ELSE LET f == IndexOf(cfg.blocks[b].fields, key) IN
      IF f = 0 THEN [err |-> "TypeError", v |-> {}]
      ELSE [err |-> "none", v |-> cfg.blocks[b].fields[f].value]

\* asic_config['recconfig'][key][1]
RecIndex(cfg, key) ==
  IF cfg.none THEN [err |-> "TypeError", v |-> {}]
  ELSE LET b == IndexOf(cfg.blocks, "recconfig") IN
    IF b = 0 THEN [err |-> "KeyError", v |-> {}]
    ELSE LET f == IndexOf(cfg.blocks[b].fields, key) IN
      IF f = 0 THEN [err |-> "KeyError", v |-> {}]
      ELSE [err |-> "none", v |-> cfg.blocks[b].fields[f].value]

(* ------------------------ pixel-matrix algebra ------------------------ *)

\* asic_config['recconfig'][key][1] = <r>, where r is the evaluated right side
RecStore(m, key, r) ==
  IF m.err # "none" THEN m
  ELSE IF r.err # "none" THEN Raise(m, r.err)
  ELSE SetValue(m, "recconfig", key, r.v)

\* the right sides: <read> | mask, <read> & mask, <read> & ~mask
OrMask(r, mask) == [r EXCEPT !.v = @ \cup mask]

AndMask(r, mask) == [r EXCEPT !.v = @ \cap mask]

AndNotMask(r, mask) == [r EXCEPT !.v = @ \ mask]

\* 2 << row, also 1 << (row + 1)
PixelBit(row) == {row + 1}

enable_inj_row(m, row) ==
  IF row < m.rows
  THEN RecStore(m, ColKey(row), OrMask(RecGet(m.cfg, ColKey(row)), InjRowMask))
  ELSE m

enable_inj_col(m, col) ==
  IF col < m.cols
  THEN RecStore(m, ColKey(col), OrMask(RecGet(m.cfg, ColKey(col)), InjColMask))
  ELSE m

RECURSIVE AmpoutClearLoop(_, _)
\* for i in range(self.num_cols): recconfig[col i][1] &= 0b011...1
AmpoutClearLoop(m, i) ==
  IF i >= m.cols \/ m.err # "none" THEN m
  ELSE AmpoutClearLoop(
         RecStore(m, ColKey(i), AndMask(RecIndex(m.cfg, ColKey(i)), AmpoutClearMask)),
         i + 1)

\* enable_ampout_col without its loop over the columns
enable_ampout_col_noclear(m, col) ==
  RecStore(m, ColKey(col), OrMask(RecIndex(m.cfg, ColKey(col)), AmpoutMask))

enable_ampout_col(m, col) ==
  LET m1 == AmpoutClearLoop(m, 0) IN
  RecStore(m1, ColKey(col), OrMask(RecIndex(m1.cfg, ColKey(col)), AmpoutMask))

enable_pixel(m, col, row) ==
  IF row < m.rows /\ col < m.cols
  THEN RecStore(m, ColKey(col), AndNotMask(RecGet(m.cfg, ColKey(col)), PixelBit(row)))
  ELSE m

\* disable_pixel with 1 << row for 2 << row
disable_pixel_shifted(m, col, row) ==
  IF row < m.rows /\ col < m.cols
  THEN RecStore(m, ColKey(col), OrMask(RecGet(m.cfg, ColKey(col)), {row}))
  ELSE m

disable_pixel(m, col, row) ==
  IF row < m.rows /\ col < m.cols
  THEN RecStore(m, ColKey(col), OrMask(RecGet(m.cfg, ColKey(col)), PixelBit(row)))
  ELSE m

disable_inj_row(m, row) ==
  IF row < m.rows
  THEN RecStore(m, ColKey(row), AndMask(RecGet(m.cfg, ColKey(row)), InjRowClearMask))
  ELSE m

disable_inj_col(m, col) ==
  IF col < m.cols
  THEN RecStore(m, ColKey(col), AndMask(RecGet(m.cfg, ColKey(col)), InjColClearMask))
  ELSE m

\* get_pixel with 1 << row for 1 << (row + 1)
get_pixel_shifted(cfg, rows, col, row) ==
  IF row < rows
  THEN LET r == RecGet(cfg, ColKey(col)) IN
       IF r.err # "none" THEN [err |-> r.err, ret |-> "None"]
       ELSE IF {row} \cap r.v # {} THEN [err |-> "none", ret |-> "False"]
       ELSE [err |-> "none", ret |-> "True"]
  ELSE [err |-> "none", ret |-> "None"]

\* the call's outcome: the exception, or "True" / "False" / "None" returned
get_pixel(cfg, rows, col, row) ==
  IF row < rows
  THEN LET r == RecGet(cfg, ColKey(col)) IN
       IF r.err # "none" THEN [err |-> r.err, ret |-> "None"]
       ELSE IF PixelBit(row) \cap r.v # {} THEN [err |-> "none", ret |-> "False"]
       ELSE [err |-> "none", ret |-> "True"]
  ELSE [err |-> "none", ret |-> "None"]

RECURSIVE ResetLoop(_, _, _)
\* for key in self.asic_config['recconfig']: recconfig[key][1] = default
ResetLoop(m, b, f) ==
  IF m.err # "none" \/ f > Len(m.cfg.blocks[b].fields) THEN m
  ELSE ResetLoop(SetValue(m, "recconfig", m.cfg.blocks[b].fields[f].name, DefaultWord),
                 b, f + 1)

reset_recconfig(m) ==
  IF m.cfg.none THEN Raise(m, "TypeError")
  ELSE IF IndexOf(m.cfg.blocks, "recconfig") = 0 THEN Raise(m, "KeyError")
  ELSE ResetLoop(m, IndexOf(m.cfg.blocks, "recconfig"), 1)

(* --------------------------- the serializer --------------------------- *)

\* BitArray(uint=value, length=nbits): nbits bits, the most significant first;
\* a value that does not fit is a ValueError, which is caught, printed as
\* 'Allowed Values 0 - ...', and the call returns None
int2nbit(value, nbits) ==
  IF Fits(value, nbits)
  THEN [ok |-> TRUE, bits |-> [i \in 1..nbits |-> IF (nbits - i) \in value THEN 1 ELSE 0]]
  ELSE [ok |-> FALSE, bits |-> <<>>]

RECURSIVE AllFields(_)
\* for key in self.asic_config: for values in self.asic_config[key].values()
AllFields(blocks) ==
  IF blocks = <<>> THEN <<>>
  ELSE Head(blocks).fields \o AllFields(Tail(blocks))

\* bitvector.append(None) depends on the installed bitstring: a 3.x build
\* makes an empty bitstring of None and appends nothing, a 4.x build raises
\* TypeError
BitstringBuilds == {"append_nothing", "raise"}

RECURSIVE AppendFields(_, _)
AppendFields(fields, build) ==
  IF fields = <<>> THEN [err |-> "none", bits |-> <<>>]
  ELSE LET e == int2nbit(Head(fields).value, Head(fields).width) IN
       IF ~e.ok /\ build = "raise" THEN [err |-> "TypeError", bits |-> <<>>]
       ELSE LET rest == AppendFields(Tail(fields), build) IN
            IF rest.err # "none" THEN rest
            ELSE [err |-> "none", bits |-> e.bits \o rest.bits]

\* bitvector.reverse()
Reverse(s) == [i \in 1..Len(s) |-> s[Len(s) + 1 - i]]

RECURSIVE AppendFieldsReversed(_, _)
\* the fields appended each with its own bits reversed
AppendFieldsReversed(fields, build) ==
  IF fields = <<>> THEN [err |-> "none", bits |-> <<>>]
  ELSE LET e == int2nbit(Head(fields).value, Head(fields).width) IN
       IF ~e.ok /\ build = "raise" THEN [err |-> "TypeError", bits |-> <<>>]
       ELSE LET rest == AppendFieldsReversed(Tail(fields), build) IN
            IF rest.err # "none" THEN rest
            ELSE [err |-> "none", bits |-> Reverse(e.bits) \o rest.bits]

\* gen_asic_vector reversing field by field
gen_asic_vector_perfield(cfg, msbfirst, build) ==
  IF cfg.none THEN [err |-> "TypeError", bits |-> <<>>]
  ELSE IF msbfirst THEN AppendFields(AllFields(cfg.blocks), build)
  ELSE AppendFieldsReversed(AllFields(cfg.blocks), build)

gen_asic_vector(cfg, msbfirst, build) ==
  IF cfg.none THEN [err |-> "TypeError", bits |-> <<>>]
  ELSE LET v == AppendFields(AllFields(cfg.blocks), build) IN
       IF v.err # "none" \/ msbfirst THEN v
       ELSE [v EXCEPT !.bits = Reverse(@)]

\* update_asic adding the vector to what the transport was handed before
update_asic_appending(m, build) ==
  IF m.err # "none" THEN m
  ELSE LET v == gen_asic_vector(m.cfg, FALSE, build)
           m1 == Event(m, "gen_asic_vector") IN
       IF v.err # "none" THEN Raise(m1, v.err)
       ELSE Event([m1 EXCEPT !.wire = @ \o v.bits], "write")

\* Asic.update_asic: self.write(gen_asic_pattern(self.gen_asic_vector(), True));
\* the framing and the write belong to the transport, which is handed the vector
update_asic(m, build) ==
  IF m.err # "none" THEN m
  ELSE LET v == gen_asic_vector(m.cfg, FALSE, build)
           m1 == Event(m, "gen_asic_vector") IN
       IF v.err # "none" THEN Raise(m1, v.err)
       ELSE Event([m1 EXCEPT !.wire = v.bits], "write")

\* asic_update resetting the chip after the vector was handed over
asic_update_resetlast(m, build) ==
  IF m.err # "none" THEN m
  ELSE IF ~m.nexys \/ ~m.obj THEN Raise(m, "AttributeError")
  ELSE LET m1 == update_asic(m, build) IN
       IF m1.err # "none" THEN m1 ELSE Event(m1, "chip_reset")

\* astropixRun.asic_update: self.nexys.chip_reset(); self.asic.asic_update()
asic_update(m, build) ==
  IF m.err # "none" THEN m
  ELSE IF ~m.nexys THEN Raise(m, "AttributeError")
  ELSE IF ~m.obj THEN Raise(Event(m, "chip_reset"), "AttributeError")
  ELSE update_asic(Event(m, "chip_reset"), build)

(* ----------------------- run control: overrides ----------------------- *)

\* an optional dict argument: None, or its items in insertion order
None == [some |-> FALSE, items |-> <<>>]

Dict(items) == [some |-> TRUE, items |-> items]

Item(k, v) == [k |-> k, v |-> v]

RECURSIVE WriteDict(_, _, _)
\* for key in cfg: self.asic.asic_config[bname][key][1] = cfg[key]
WriteDict(m, bname, items) ==
  IF items = <<>> \/ m.err # "none" THEN m
  ELSE IF ~m.obj THEN Raise(m, "AttributeError")
  ELSE WriteDict(SetValue(m, bname, Head(items).k, Head(items).v), bname, Tail(items))

\* update_asic_config without its test of self._asic_start
update_asic_config_unguarded(m, start, bias_cfg, idac_cfg, vdac_cfg, build) ==
  IF m.err # "none" THEN m
  ELSE LET m1 == IF bias_cfg.some THEN WriteDict(m, "biasconfig", bias_cfg.items) ELSE m
           m2 == IF idac_cfg.some THEN WriteDict(m1, "idacs", idac_cfg.items) ELSE m1
       IN IF m2.err # "none" THEN m2
          ELSE IF vdac_cfg.some
               THEN asic_update(WriteDict(m2, "vdacs", vdac_cfg.items), build)
               ELSE Event(m2, "info_nothing_to_do")

\* astropixRun.update_asic_config; the else belongs to the vdac_cfg test
update_asic_config(m, start, bias_cfg, idac_cfg, vdac_cfg, build) ==
  IF m.err # "none" THEN m
  ELSE IF start = "unset" THEN Raise(m, "AttributeError")
  ELSE IF start = "false" THEN Raise(m, "RuntimeError")
  ELSE LET m1 == IF bias_cfg.some THEN WriteDict(m, "biasconfig", bias_cfg.items) ELSE m
           m2 == IF idac_cfg.some THEN WriteDict(m1, "idacs", idac_cfg.items) ELSE m1
       IN IF m2.err # "none" THEN m2
          ELSE IF vdac_cfg.some
               THEN asic_update(WriteDict(m2, "vdacs", vdac_cfg.items), build)
               ELSE Event(m2, "info_nothing_to_do")

(* ------------------------ the configuration file ---------------------- *)

\* a chip configuration as the yaml file gives it: nrec column words in recconfig
YamlBlocks(nrec) ==
  << Blk("digitalconfig", << Fld("interrupt_pushpull", 1, ToBits(1)) >>),
     Blk("biasconfig", << Fld("DisHiDR", 1, ToBits(0)) >>),
     Blk("idacs", << Fld("blres", 2, ToBits(0)), Fld("vn1", 2, ToBits(2)) >>),
     Blk("vdacs", << Fld("thpix", 2, ToBits(1)) >>),
     Blk("recconfig", [i \in 1..nrec |-> Fld(ColKey(i - 1), 38, DefaultWord)]) >>

Yaml(file, chip, geometry, cols, rows, nrec) ==
  [file |-> file, chip |-> chip, geometry |-> geometry, cols |-> cols, rows |-> rows,
   null |-> FALSE, blocks |-> YamlBlocks(nrec)]

\* the files a session is given: a complete one, one whose recconfig lists
\* fewer columns than its geometry, one without its geometry key, one without
\* the chip version's key, and a name that is no file
YamlFull == Yaml(TRUE, TRUE, TRUE, 2, 2, 2)

YamlSparse == Yaml(TRUE, TRUE, TRUE, 3, 2, 2)

YamlNoGeometry == Yaml(TRUE, TRUE, FALSE, 0, 0, 2)

YamlNoChip == Yaml(TRUE, FALSE, FALSE, 0, 0, 2)

YamlNoFile == Yaml(FALSE, FALSE, FALSE, 0, 0, 2)

\* a complete file whose column words are 40 bits wide, bit 38 set
YamlWide ==
  [YamlFull EXCEPT !.blocks[5].fields =
     [i \in 1..2 |-> Fld(ColKey(i - 1), 40, DefaultWord \cup {38})]]

Yamls == {YamlFull, YamlSparse, YamlNoGeometry, YamlNoChip, YamlNoFile, YamlWide}

\* Asic.load_conf_from_yaml on a file that opens: both lookups log their own
\* failure and go on; a file whose 'config' is null gives asic_config None
load_conf_from_yaml(m, y) ==
  LET m1 == IF y.chip
            THEN Event([m EXCEPT !.cfg = [none |-> y.null, blocks |-> y.blocks]],
                       "info_config_found")
            ELSE Event(m, "error_config_not_found")
  IN IF y.chip /\ y.geometry
     THEN Event([m1 EXCEPT !.cols = y.cols, !.rows = y.rows], "info_geometry_found")
     ELSE Event(m1, "error_geometry_not_found")

\* write_conf_to_yaml dumping with sort_keys=True
write_conf_to_yaml_sorted(m) ==
  [file |-> TRUE, chip |-> TRUE, geometry |-> TRUE, cols |-> m.cols, rows |-> m.rows,
   null |-> m.cfg.none, blocks |-> Reverse(m.cfg.blocks)]

\* Asic.write_conf_to_yaml: {astropix<v>: {geometry: {cols, rows}, config: asic_config}}
\* dumped with sort_keys=False; a None model is dumped as null
write_conf_to_yaml(m) ==
  [file |-> TRUE, chip |-> TRUE, geometry |-> TRUE, cols |-> m.cols, rows |-> m.rows,
   null |-> m.cfg.none, blocks |-> m.cfg.blocks]

(* ------------------------- run control: asic_init --------------------- *)

\* k in self.asic.asic_config[bname]
HasKey(cfg, bname, k) ==
  IF cfg.none THEN [err |-> "TypeError", in |-> FALSE]
  ELSE LET b == IndexOf(cfg.blocks, bname) IN
    IF b = 0 THEN [err |-> "KeyError", in |-> FALSE]
    ELSE [err |-> "none", in |-> IndexOf(cfg.blocks[b].fields, k) # 0]

RECURSIVE SortDacs(_, _, _)
\* for k in dac_setup.keys(): idac_setup = {k: ...} / vdac_setup = {k: ...} / return
SortDacs(cfg, items, acc) ==
  IF items = <<>> \/ acc.err # "none" \/ acc.bad THEN acc
  ELSE LET it == Head(items)
           i == HasKey(cfg, "idacs", it.k)
           v == HasKey(cfg, "vdacs", it.k)
       IN IF i.err # "none" THEN [acc EXCEPT !.err = i.err]
          ELSE IF i.in
               THEN SortDacs(cfg, Tail(items), [acc EXCEPT !.idac = Dict(<<it>>)])
          ELSE IF v.err # "none" THEN [acc EXCEPT !.err = v.err]
          ELSE IF v.in
               THEN SortDacs(cfg, Tail(items), [acc EXCEPT !.vdac = Dict(<<it>>)])
          ELSE [acc EXCEPT !.bad = TRUE]

\* an optional int argument
NoInt == [some |-> FALSE, v |-> 0]

SomeInt(v) == [some |-> TRUE, v |-> v]

\* asic_init going on with the keys sorted before the bad one
asic_init_tail_partial(m, inj, dac_setup, bias_setup, analog_col, build) ==
  LET s == IF dac_setup.some /\ dac_setup.items # <<>>
           THEN SortDacs(m.cfg, dac_setup.items,
                         [idac |-> None, vdac |-> None, err |-> "none", bad |-> FALSE])
           ELSE [idac |-> None, vdac |-> None, err |-> "none", bad |-> FALSE]
  IN IF s.err # "none" THEN Raise(m, s.err)
     ELSE asic_update(update_asic_config(m, "true", bias_setup, s.idac, s.vdac, build), build)

\* the part of asic_init after the load
asic_init_tail(m, inj, dac_setup, bias_setup, analog_col, build) ==
  LET s == IF dac_setup.some /\ dac_setup.items # <<>>
           THEN SortDacs(m.cfg, dac_setup.items,
                         [idac |-> None, vdac |-> None, err |-> "none", bad |-> FALSE])
           ELSE [idac |-> None, vdac |-> None, err |-> "none", bad |-> FALSE]
  IN IF s.err # "none" THEN Raise(m, s.err)
     ELSE IF s.bad THEN Event(m, "warning_bad_dac")
     ELSE LET m1 == update_asic_config(m, "true", bias_setup, s.idac, s.vdac, build)
              m2 == IF m1.err = "none" /\ analog_col.some /\ analog_col.v <= m1.cols
                    THEN enable_ampout_col(Event(m1, "info_analog"), analog_col.v)
                    ELSE m1
              m3 == IF m2.err = "none" /\ inj.some
                    THEN enable_inj_row(enable_inj_col(m2, inj.col), inj.row)
                    ELSE m2
          IN asic_update(m3, build)

\* astropixRun.asic_init after self._asic_start = True, on a session that was
\* opened: a new Asic, the load, the overrides, the push; a file that cannot
\* be opened ends the process (sys.exit(1))
asic_init(w, inj, y, dac_setup, bias_setup, analog_col, build) ==
  LET m0 == Exec(NoConfig, DefaultCols, DefaultRows, w, TRUE, TRUE) IN
  IF ~y.file THEN Raise(Event(m0, "error_no_yaml"), "SystemExit")
  ELSE asic_init_tail(load_conf_from_yaml(m0, y), inj, dac_setup, bias_setup,
                      analog_col, build)

(* ------------------------------ the session --------------------------- *)

Idx == 0..MaxIdx

NoInject == [some |-> FALSE, col |-> 0, row |-> 0]

Inject(row, col) == [some |-> TRUE, col |-> col, row |-> row]

NoEnable == [on |-> FALSE, col |-> 0, row |-> 0, word |-> {}]

\* no file was written yet
NoExport ==
  [some |-> FALSE, yaml |-> YamlNoFile, cfg |-> NoConfig, cols |-> 0, rows |-> 0]

\* the dict arguments of a call that takes none
NoArgs == [bias |-> None, idac |-> None, vdac |-> None]

NoOp ==
  [op |-> "none", col |-> 0, row |-> 0, args |-> NoArgs, pre |-> NoConfig, ev |-> <<>>,
   err |-> "none", ret |-> "None", analog |-> NoInt, prevEnable |-> NoEnable]

\* the arguments the calls are given
BiasArgs == {None, Dict(<<Item("DisHiDR", ToBits(1))>>), Dict(<<Item("DisHiDR", ToBits(4))>>)}

IdacArgs ==
  {None, Dict(<<Item("blres", ToBits(1))>>),
   Dict(<<Item("vn1", ToBits(1)), Item("nokey", ToBits(1))>>)}

VdacArgs == {None, Dict(<<>>), Dict(<<Item("thpix", ToBits(2))>>)}

DacSetups ==
  {None,
   Dict(<<Item("vn1", ToBits(4))>>),
   Dict(<<Item("thpix", ToBits(2))>>),
   Dict(<<Item("blres", ToBits(1)), Item("vn1", ToBits(3))>>),
   Dict(<<Item("blres", ToBits(1)), Item("nokey", ToBits(1))>>)}

BiasSetups == {None, Dict(<<Item("DisHiDR", ToBits(1))>>)}

AnalogCols == {NoInt} \cup {SomeInt(c) : c \in Idx}

Injects == {NoInject, Inject(1, 0)}

Init ==
  /\ session = "none"
  /\ asicStart = "unset"
  /\ asicObj = FALSE
  /\ asic_config = NoConfig
  /\ num_cols = DefaultCols
  /\ num_rows = DefaultRows
  /\ injection = NoInject
  /\ wire = <<>>
  /\ budget = MaxOps
  /\ inits = 0
  /\ lastOp = NoOp
  /\ lastEnable = NoEnable
  /\ exported = NoExport

\* astropixRun.__init__: offline, or open the transport and run _test_io,
\* which raises when a register access raises and never looks at what
\* read_register returned
Construct ==
  /\ session = "none"
  /\ \E offline \in BOOLEAN, ioRaises \in BOOLEAN, readBackDiffers \in BOOLEAN,
        inject \in Injects :
       /\ session' = IF offline THEN "offline" ELSE IF ioRaises THEN "dead" ELSE "open"
       /\ asicStart' = IF offline THEN "unset" ELSE "false"
       /\ injection' = IF offline \/ ioRaises THEN NoInject ELSE inject
       /\ lastOp' = [NoOp EXCEPT !.op = "__init__",
                       !.ev = IF offline THEN <<"info_offline">>
                              ELSE IF ioRaises THEN <<"write_register">>
                              ELSE IF readBackDiffers
                                   THEN <<"write_register", "read_register_differs">>
                                   ELSE <<"write_register", "read_register">>,
                       !.err = IF ~offline /\ ioRaises THEN "RuntimeError" ELSE "none"]
  /\ UNCHANGED <<asicObj, asic_config, num_cols, num_rows, wire, budget, inits, lastEnable,
                 exported>>

Callable == session \in {"open", "offline"} /\ budget > 0

Cur == Exec(asic_config, num_cols, num_rows, wire, session = "open", asicObj)

\* a call on self.asic
OnAsic(m) == IF asicObj THEN m ELSE Raise(Cur, "AttributeError")

\* the word of column col in cfg
Word(cfg, col) == RecGet(cfg, ColKey(col)).v

Commit(op, col, row, args, m, ret) ==
  /\ asic_config' = m.cfg
  /\ wire' = m.wire
  /\ budget' = budget - 1
  /\ lastOp' = [op |-> op, col |-> col, row |-> row, args |-> args, pre |-> asic_config,
                ev |-> m.ev, err |-> m.err, ret |-> ret, analog |-> NoInt,
                prevEnable |-> lastEnable]
  /\ lastEnable' = IF op = "enable_pixel" /\ m.err = "none" /\ m.ev # <<>>
                   THEN [on |-> TRUE, col |-> col, row |-> row,
                         word |-> Word(asic_config, col)]
                   ELSE NoEnable
  /\ UNCHANGED <<session, asicStart, asicObj, num_cols, num_rows, injection, inits,
                 exported>>

AsicInit ==
  /\ session \in {"open", "offline"}
  /\ inits < MaxInits
  /\ \E y \in Yamls, dac \in DacSetups, bias \in BiasSetups, analog \in AnalogCols,
        build \in BitstringBuilds :
       LET m == IF session = "offline"
                THEN Raise(Cur, "AttributeError")
                ELSE asic_init(wire, injection, y, dac, bias, analog, build)
       IN /\ asicStart' = "true"
          /\ asicObj' = (asicObj \/ session = "open")
          /\ session' = IF m.err = "SystemExit" THEN "exited" ELSE session
          /\ asic_config' = m.cfg
          /\ num_cols' = m.cols
          /\ num_rows' = m.rows
          /\ wire' = m.wire
          /\ inits' = inits + 1
          /\ lastOp' = [op |-> "asic_init", col |-> 0, row |-> 0,
                        args |-> [bias |-> bias, idac |-> dac, vdac |-> None],
                        pre |-> asic_config, ev |-> m.ev, err |-> m.err, ret |-> "None",
                        analog |-> analog, prevEnable |-> lastEnable]
          /\ lastEnable' = NoEnable
          /\ UNCHANGED <<injection, budget, exported>>

UpdateAsicConfig ==
  /\ Callable
  /\ \E bias \in BiasArgs, idac \in IdacArgs, vdac \in VdacArgs, build \in BitstringBuilds :
       Commit("update_asic_config", 0, 0, [bias |-> bias, idac |-> idac, vdac |-> vdac],
              update_asic_config(Cur, asicStart, bias, idac, vdac, build), "None")

AsicUpdate ==
  /\ Callable
  /\ \E build \in BitstringBuilds :
       Commit("asic_update", 0, 0, NoArgs, asic_update(Cur, build), "None")

EnablePixel ==
  /\ Callable
  /\ \E c \in Idx, r \in Idx :
       Commit("enable_pixel", c, r, NoArgs, OnAsic(enable_pixel(Cur, c, r)), "None")

DisablePixel ==
  /\ Callable
  /\ \E c \in Idx, r \in Idx :
       Commit("disable_pixel", c, r, NoArgs, OnAsic(disable_pixel(Cur, c, r)), "None")

GetPixel ==
  /\ Callable
  /\ \E c \in Idx, r \in Idx :
       LET g == get_pixel(asic_config, num_rows, c, r) IN
       Commit("get_pixel", c, r, NoArgs, OnAsic(Raise(Cur, g.err)),
              IF asicObj THEN g.ret ELSE "None")

EnableInjRow ==
  /\ Callable
  /\ \E r \in Idx : Commit("enable_inj_row", r, r, NoArgs, OnAsic(enable_inj_row(Cur, r)), "None")

DisableInjRow ==
  /\ Callable
  /\ \E r \in Idx : Commit("disable_inj_row", r, r, NoArgs, OnAsic(disable_inj_row(Cur, r)), "None")

EnableInjCol ==
  /\ Callable
  /\ \E c \in Idx : Commit("enable_inj_col", c, 0, NoArgs, OnAsic(enable_inj_col(Cur, c)), "None")

DisableInjCol ==
  /\ Callable
  /\ \E c \in Idx : Commit("disable_inj_col", c, 0, NoArgs, OnAsic(disable_inj_col(Cur, c)), "None")

EnableAmpoutCol ==
  /\ Callable
  /\ \E c \in Idx :
       Commit("enable_ampout_col", c, 0, NoArgs, OnAsic(enable_ampout_col(Cur, c)), "None")

ResetRecconfig ==
  /\ Callable
  /\ Commit("reset_recconfig", 0, 0, NoArgs, OnAsic(reset_recconfig(Cur)), "None")

\* self.asic.write_conf_to_yaml(chipversion, filename)
WriteConfToYaml ==
  /\ Callable
  /\ exported' = IF asicObj
                 THEN [some |-> TRUE, yaml |-> write_conf_to_yaml(Cur), cfg |-> asic_config,
                       cols |-> num_cols, rows |-> num_rows]
                 ELSE exported
  /\ budget' = budget - 1
  /\ lastOp' = [op |-> "write_conf_to_yaml", col |-> 0, row |-> 0, args |-> NoArgs,
                pre |-> asic_config, ev |-> <<>>,
                err |-> IF asicObj THEN "none" ELSE "AttributeError",
                ret |-> "None", analog |-> NoInt, prevEnable |-> lastEnable]
  /\ lastEnable' = NoEnable
  /\ UNCHANGED <<session, asicStart, asicObj, asic_config, num_cols, num_rows, injection,
                 wire, inits>>

\* self.asic.load_conf_from_yaml(chipversion, filename) of the file that
\* write_conf_to_yaml wrote; open() raises when there is none
LoadConfFromYaml ==
  /\ Callable
  /\ LET m == IF ~asicObj THEN Raise(Cur, "AttributeError")
              ELSE IF ~exported.some THEN Raise(Cur, "FileNotFoundError")
              ELSE load_conf_from_yaml(Cur, exported.yaml)
     IN /\ asic_config' = m.cfg
        /\ num_cols' = m.cols
        /\ num_rows' = m.rows
        /\ lastOp' = [op |-> "load_conf_from_yaml", col |-> 0, row |-> 0, args |-> NoArgs,
                      pre |-> asic_config, ev |-> m.ev, err |-> m.err, ret |-> "None",
                      analog |-> NoInt, prevEnable |-> lastEnable]
  /\ budget' = budget - 1
  /\ lastEnable' = NoEnable
  /\ UNCHANGED <<session, asicStart, asicObj, injection, wire, inits, exported>>

\* a session from its construction on: the bring-up and the calls around it
Next ==
  \/ Construct
  \/ AsicInit
  \/ UpdateAsicConfig
  \/ AsicUpdate
  \/ EnableAmpoutCol
  \/ GetPixel

Spec == Init /\ [][Next]_vars

\* a session whose bring-up, asic_init(yaml) with no override, is done
InitLoaded ==
  \E y \in Yamls \ {YamlNoFile}, build \in BitstringBuilds :
    LET m == asic_init(<<>>, NoInject, y, None, None, NoInt, build) IN
    /\ session = "open"
    /\ asicStart = "true"
    /\ asicObj = TRUE
    /\ asic_config = m.cfg
    /\ num_cols = m.cols
    /\ num_rows = m.rows
    /\ injection = NoInject
    /\ wire = m.wire
    /\ budget = MaxLoadedOps
    /\ inits = 1
    /\ lastOp = [op |-> "asic_init", col |-> 0, row |-> 0, args |-> NoArgs,
                 pre |-> NoConfig, ev |-> m.ev, err |-> m.err, ret |-> "None",
                 analog |-> NoInt, prevEnable |-> NoEnable]
    /\ lastEnable = NoEnable
    /\ exported = NoExport

\* a loaded session: the pixel-matrix algebra, the overrides and the push
NextLoaded ==
  \/ EnableAmpoutCol
  \/ EnablePixel
  \/ DisablePixel
  \/ GetPixel
  \/ EnableInjRow
  \/ DisableInjRow
  \/ EnableInjCol
  \/ DisableInjCol
  \/ ResetRecconfig
  \/ UpdateAsicConfig
  \/ AsicUpdate

SpecLoaded == InitLoaded /\ [][NextLoaded]_vars

\* a loaded session: the model written to a file and read back, with changes
\* of the model around it
NextExport ==
  \/ WriteConfToYaml
  \/ LoadConfFromYaml
  \/ EnablePixel
  \/ EnableInjCol
  \/ UpdateAsicConfig

SpecExport == InitLoaded /\ [][NextExport]_vars

(* ------------------------------ properties ---------------------------- *)

\* the fields of block bname of cfg, none when the block or the model is missing
FieldsOf(cfg, bname) ==
  IF cfg.none \/ IndexOf(cfg.blocks, bname) = 0 THEN <<>>
  ELSE cfg.blocks[IndexOf(cfg.blocks, bname)].fields

\* the words of recconfig
Words(cfg) == {FieldsOf(cfg, "recconfig")[i] : i \in 1..Len(FieldsOf(cfg, "recconfig"))}

\* how often e occurs in the events of a call
Count(ev, e) == Cardinality({i \in 1..Len(ev) : ev[i] = e})

\* the calls of the pixel-matrix algebra that take an index
MatrixOps ==
  {"enable_pixel", "disable_pixel", "get_pixel", "enable_inj_row", "disable_inj_row",
   "enable_inj_col", "disable_inj_col", "enable_ampout_col"}

\* the last call's index lies outside the geometry
OutOfRange ==
  CASE lastOp.op \in {"enable_pixel", "disable_pixel", "get_pixel"}
         -> lastOp.row >= num_rows \/ lastOp.col >= num_cols
    [] lastOp.op \in {"enable_inj_row", "disable_inj_row"} -> lastOp.row >= num_rows
    [] lastOp.op \in {"enable_inj_col", "disable_inj_col", "enable_ampout_col"}
         -> lastOp.col >= num_cols
    [] OTHER -> FALSE

\* C1: update_asic_config on a session whose _asic_start is False raises the
\* not-initialized RuntimeError whatever its arguments, writes no field and
\* pushes nothing.
C1_NotInitializedRaises ==
  (lastOp.op = "update_asic_config" /\ asicStart = "false")
    => /\ lastOp.err = "RuntimeError"
       /\ lastOp.ev = <<>>
       /\ asic_config = lastOp.pre

C1_Witness ==
  /\ lastOp.op = "update_asic_config"
  /\ asicStart = "false"
  /\ lastOp.args.bias.some
  /\ lastOp.args.vdac.some
  /\ lastOp.err = "RuntimeError"

\* C2: with a configuration loaded, a call of update_asic_config that returns
\* and changed a field did exactly one push, and did it after its last write.
C2_ChangeIsPushed ==
  (/\ lastOp.op = "update_asic_config"
   /\ ~lastOp.pre.none
   /\ lastOp.err = "none"
   /\ asic_config # lastOp.pre)
    => /\ Count(lastOp.ev, "write") = 1
       /\ lastOp.ev[Len(lastOp.ev)] = "write"

\* C3: a pixel or column call with an index outside the geometry leaves every
\* word of recconfig as it was, records a warning and raises nothing.
C3_OutOfRangeIsRecordedNoOp ==
  (lastOp.op \in MatrixOps /\ OutOfRange)
    => /\ asic_config = lastOp.pre
       /\ \E i \in 1..Len(lastOp.ev) : lastOp.ev[i] = "warning"
       /\ lastOp.err = "none"

EnableThenDisable ==
  /\ lastOp.op = "disable_pixel"
  /\ lastOp.err = "none"
  /\ lastOp.prevEnable.on
  /\ lastOp.prevEnable.col = lastOp.col
  /\ lastOp.prevEnable.row = lastOp.row

\* C5 as stated: enable_pixel(c, r) then disable_pixel(c, r) gives column c's
\* word the value it had before the enable_pixel.
C5_Original ==
  EnableThenDisable => Word(asic_config, lastOp.col) = lastOp.prevEnable.word

\* C5 amended: enable_pixel(c, r) then disable_pixel(c, r) gives column c's
\* word the value it had before the enable_pixel with bit r+1 set, which is
\* that value exactly when the pixel was disabled before.
C5_EnableDisableSetsBit ==
  EnableThenDisable
    => /\ Word(asic_config, lastOp.col) = lastOp.prevEnable.word \cup PixelBit(lastOp.row)
       /\ (Word(asic_config, lastOp.col) = lastOp.prevEnable.word)
            <=> (PixelBit(lastOp.row) \subseteq lastOp.prevEnable.word)

C5_Witness ==
  /\ EnableThenDisable
  /\ ~(PixelBit(lastOp.row) \subseteq lastOp.prevEnable.word)
  /\ lastOp.prevEnable.word # {}

\* C6: get_pixel(c, r) is True exactly when bit r+1 of column c's word is
\* clear: True right after enable_pixel(c, r), False right after
\* disable_pixel(c, r), and an enable or disable of another pixel leaves it.
C6_GetPixelReadsBit ==
  /\ (lastOp.op = "get_pixel" /\ lastOp.err = "none" /\ lastOp.row < num_rows)
       => /\ (lastOp.ret = "True") <=> ~((lastOp.row + 1) \in Word(asic_config, lastOp.col))
          /\ lastOp.ret \in {"True", "False"}
          /\ (lastOp.prevEnable.on /\ lastOp.prevEnable.col = lastOp.col
                /\ lastOp.prevEnable.row = lastOp.row) => lastOp.ret = "True"
  /\ (lastOp.op = "enable_pixel" /\ lastOp.err = "none" /\ ~OutOfRange)
       => get_pixel(asic_config, num_rows, lastOp.col, lastOp.row)
            = [err |-> "none", ret |-> "True"]
  /\ (lastOp.op = "disable_pixel" /\ lastOp.err = "none" /\ ~OutOfRange)
       => get_pixel(asic_config, num_rows, lastOp.col, lastOp.row)
            = [err |-> "none", ret |-> "False"]
  /\ (lastOp.op \in {"enable_pixel", "disable_pixel"})
       => \A c \in Idx, r \in Idx :
            (c # lastOp.col \/ r # lastOp.row)
              => get_pixel(asic_config, num_rows, c, r)
                   = get_pixel(lastOp.pre, num_rows, c, r)

C6_Witness ==
  /\ lastOp.op = "get_pixel"
  /\ lastOp.err = "none"
  /\ lastOp.ret = "True"
  /\ lastOp.prevEnable.on
  /\ lastOp.prevEnable.col = lastOp.col
  /\ lastOp.prevEnable.row = lastOp.row
  /\ (lastOp.row + 1) \in lastOp.prevEnable.word

\* C7: after reset_recconfig returns, get_pixel(c, r) returns False for every
\* column and row of the geometry, and no word has its injection-row,
\* column-injection or mux-select bit set.
C7_ResetDisablesAll ==
  (lastOp.op = "reset_recconfig" /\ lastOp.err = "none")
    => /\ \A c \in 0..(num_cols - 1), r \in 0..(num_rows - 1) :
            get_pixel(asic_config, num_rows, c, r) = [err |-> "none", ret |-> "False"]
       /\ \A w \in Words(asic_config) :
            w.value \cap (InjRowMask \cup InjColMask \cup AmpoutMask) = {}

\* an item of the dict d names a field of block bname whose width cannot hold it
Unfit(cfg, bname, d) ==
  \E i \in 1..Len(d.items), f \in 1..Len(FieldsOf(cfg, bname)) :
    /\ FieldsOf(cfg, bname)[f].name = d.items[i].k
    /\ ~Fits(d.items[i].v, FieldsOf(cfg, bname)[f].width)

\* C8: every field of every block holds 0 <= value < 2^width, and an override
\* whose value does not fit its field ends in an error.
C8_ValuesFitWidths ==
  /\ ~asic_config.none
       => \A i \in 1..Len(AllFields(asic_config.blocks)) :
            Fits(AllFields(asic_config.blocks)[i].value,
                 AllFields(asic_config.blocks)[i].width)
  /\ (/\ lastOp.op = "update_asic_config"
      /\ asicStart = "true"
      /\ \/ Unfit(lastOp.pre, "biasconfig", lastOp.args.bias)
         \/ Unfit(lastOp.pre, "idacs", lastOp.args.idac)
         \/ Unfit(lastOp.pre, "vdacs", lastOp.args.vdac))
       => lastOp.err # "none" /\ asic_config = lastOp.pre

RECURSIVE SumWidths(_)
SumWidths(fields) ==
  IF fields = <<>> THEN 0 ELSE Head(fields).width + SumWidths(Tail(fields))

\* C9: gen_asic_vector returns a vector for every model, and its length is
\* the sum of the widths of all fields of all blocks.
C9_LengthIsSumOfWidths ==
  ~asic_config.none
    => \A msbfirst \in BOOLEAN, build \in BitstringBuilds :
         /\ gen_asic_vector(asic_config, msbfirst, build).err = "none"
         /\ Len(gen_asic_vector(asic_config, msbfirst, build).bits)
              = SumWidths(AllFields(asic_config.blocks))

\* bit k (1 is the first) of the chain: the field the position falls in, and
\* its bit counted from the field's most significant end
RECURSIVE ChainBit(_, _)
ChainBit(fields, k) ==
  IF k <= Head(fields).width
  THEN IF (Head(fields).width - k) \in Head(fields).value THEN 1 ELSE 0
  ELSE ChainBit(Tail(fields), k - Head(fields).width)

\* C10: the vector serialized msb first is, block after block and field after
\* field, each field's value in exactly width bits, most significant first.
C10_MsbFirstConcatenation ==
  ~asic_config.none
    => \A build \in BitstringBuilds :
         LET v == gen_asic_vector(asic_config, TRUE, build) IN
         /\ v.err = "none"
         /\ Len(v.bits) = SumWidths(AllFields(asic_config.blocks))
         /\ \A k \in 1..Len(v.bits) : v.bits[k] = ChainBit(AllFields(asic_config.blocks), k)

\* C11: for every model and either bitstring build, serializing lsb first
\* raises exactly when serializing msb first does, and otherwise gives a
\* vector of the same length N whose bit i is bit N-1-i of the msb-first one.
C11_WholeVectorReversal ==
  ~asic_config.none
    => \A build \in BitstringBuilds :
         LET t == gen_asic_vector(asic_config, TRUE, build)
             f == gen_asic_vector(asic_config, FALSE, build)
         IN /\ f.err = t.err
            /\ Len(f.bits) = Len(t.bits)
            /\ \A i \in 1..Len(t.bits) : f.bits[i] = t.bits[Len(t.bits) + 1 - i]

\* a push handed over a vector that differs from the msb-first one and from
\* the field-by-field reversal
C11_Witness ==
  /\ ~asic_config.none
  /\ lastOp.err = "none"
  /\ lastOp.ev # <<>>
  /\ lastOp.ev[Len(lastOp.ev)] = "write"
  /\ wire = gen_asic_vector(asic_config, FALSE, "append_nothing").bits
  /\ wire # gen_asic_vector(asic_config, TRUE, "append_nothing").bits
  /\ wire # AppendFieldsReversed(AllFields(asic_config.blocks), "append_nothing").bits

\* C12: a constructor whose self-test did not read back what it wrote, or
\* whose register access failed, raises; and a session whose constructor
\* raised never has an Asic, a configuration or a push.
C12_SelfTestMismatchIsFatal ==
  /\ (/\ lastOp.op = "__init__"
      /\ lastOp.ev \in {<<"write_register">>, <<"write_register", "read_register_differs">>})
       => lastOp.err = "RuntimeError" /\ session = "dead"
  /\ session = "dead" => ~asicObj /\ asic_config.none /\ wire = <<>>

\* C13: in the events of an asic_init that returns no hand-over to the
\* transport comes before a write to the model or before the analog column is
\* selected: every override, the mux selection and the injection enable
\* precede the first push.
C13_NoPushBeforeSettings ==
  (lastOp.op = "asic_init" /\ lastOp.err = "none")
    => \A i \in 1..Len(lastOp.ev), j \in 1..Len(lastOp.ev) :
         (i < j /\ lastOp.ev[i] = "write") => lastOp.ev[j] \notin {"set", "info_analog"}

\* C14: an asic_init whose load finds no chip-version key or no geometry in
\* the file ends in an error at the load: the failed lookup is the last thing
\* the call did, and the call raises.
C14_LoadErrorsSurface ==
  (/\ lastOp.op = "asic_init"
   /\ \E i \in 1..Len(lastOp.ev) :
        lastOp.ev[i] \in {"error_config_not_found", "error_geometry_not_found"})
    => /\ lastOp.err # "none"
       /\ lastOp.ev[Len(lastOp.ev)] \in {"error_config_not_found", "error_geometry_not_found"}

\* block bname of cfg has a field called fname
Known(cfg, bname, fname) == IndexOf(FieldsOf(cfg, bname), fname) # 0

\* that field's value
ValueOf(cfg, bname, fname) == FieldsOf(cfg, bname)[IndexOf(FieldsOf(cfg, bname), fname)].value

\* C15: when asic_init returns and every key of its dac_setup names a field of
\* idacs or of vdacs, each of these fields holds the value dac_setup gives it.
C15_DacSetupApplied ==
  (/\ lastOp.op = "asic_init"
   /\ lastOp.err = "none"
   /\ lastOp.args.idac.some
   /\ \A i \in 1..Len(lastOp.args.idac.items) :
        \/ Known(asic_config, "idacs", lastOp.args.idac.items[i].k)
        \/ Known(asic_config, "vdacs", lastOp.args.idac.items[i].k))
    => \A i \in 1..Len(lastOp.args.idac.items) :
         LET it == lastOp.args.idac.items[i] IN
         IF Known(asic_config, "idacs", it.k)
         THEN ValueOf(asic_config, "idacs", it.k) = it.v
         ELSE ValueOf(asic_config, "vdacs", it.k) = it.v

\* a key of the dict d names no field of idacs and no field of vdacs
HasBadDac(d) ==
  \E i \in 1..Len(d.items) :
    \A y \in Yamls :
      LET cfg == [none |-> FALSE, blocks |-> y.blocks] IN
      ~Known(cfg, "idacs", d.items[i].k) /\ ~Known(cfg, "vdacs", d.items[i].k)

\* C16: an asic_init whose dac_setup holds a key that is neither a current-DAC
\* nor a voltage-DAC field writes no field, and leaves the fields of idacs and
\* of vdacs with the values the file gave them.
C16_BadDacKeyAppliesNone ==
  (lastOp.op = "asic_init" /\ lastOp.args.idac.some /\ HasBadDac(lastOp.args.idac))
    => /\ Count(lastOp.ev, "set") = 0
       /\ ~asic_config.none
            => \E y \in Yamls :
                 /\ FieldsOf(asic_config, "idacs")
                      = FieldsOf([none |-> FALSE, blocks |-> y.blocks], "idacs")
                 /\ FieldsOf(asic_config, "vdacs")
                      = FieldsOf([none |-> FALSE, blocks |-> y.blocks], "vdacs")

\* the bad key came after a good one whose value differs from the file's
C16_Witness ==
  /\ lastOp.op = "asic_init"
  /\ lastOp.args.idac.some
  /\ HasBadDac(lastOp.args.idac)
  /\ ~asic_config.none
  /\ Known(asic_config, "idacs", lastOp.args.idac.items[1].k)
  /\ ValueOf(asic_config, "idacs", lastOp.args.idac.items[1].k) # lastOp.args.idac.items[1].v
  /\ lastOp.ev[Len(lastOp.ev)] = "warning_bad_dac"

\* C17: _asic_start is not True when the constructor returns, and in a
\* session on an opened transport it is True only while a loaded
\* configuration is held.
C17_StartedOnlyWhenLoaded ==
  /\ lastOp.op = "__init__" => asicStart # "true"
  /\ (asicStart = "true" /\ session = "open") => asicObj /\ ~asic_config.none

\* the last thing the last call did was to hand a vector to the transport
EndedInPush == lastOp.ev # <<>> /\ lastOp.ev[Len(lastOp.ev)] = "write"

\* C18: a step of asic_update leaves the model and the geometry as they were,
\* and when it follows a call that ended in a push and itself returns, the
\* transport is handed the bits it was handed before.
C18_PushIsIdempotent ==
  [][lastOp'.op = "asic_update"
       => /\ asic_config' = asic_config
          /\ num_cols' = num_cols
          /\ num_rows' = num_rows
          /\ (EndedInPush /\ lastOp'.err = "none") => wire' = wire]_vars

\* asic_update right after a bring-up that ended in its push, handing over
\* a vector
C18_Witness ==
  /\ lastOp.op = "asic_update"
  /\ lastOp.err = "none"
  /\ budget = MaxLoadedOps - 1
  /\ inits = 1
  /\ asic_config = lastOp.pre
  /\ ~asic_config.none
  /\ wire # <<>>

\* C20: in every call, a serialization comes directly after a chip reset and
\* a hand-over directly after a serialization; and when the call ended in a
\* push, the transport holds the serialization of the model as it is now.
C20_ResetSerializeHandOver ==
  /\ \A i \in 1..Len(lastOp.ev) :
       /\ lastOp.ev[i] = "gen_asic_vector" => (i > 1 /\ lastOp.ev[i - 1] = "chip_reset")
       /\ lastOp.ev[i] = "write" => (i > 1 /\ lastOp.ev[i - 1] = "gen_asic_vector")
  /\ EndedInPush
       => \E build \in BitstringBuilds :
            gen_asic_vector(asic_config, FALSE, build) = [err |-> "none", bits |-> wire]

\* a bring-up that pushed twice, the model written in between
C20_Witness ==
  /\ lastOp.op = "asic_init"
  /\ lastOp.err = "none"
  /\ Count(lastOp.ev, "write") = 2
  /\ \E i \in 1..Len(lastOp.ev), j \in 1..Len(lastOp.ev) :
       i < j /\ lastOp.ev[i] = "write" /\ lastOp.ev[j] = "set"
  /\ wire = gen_asic_vector(asic_config, FALSE, "append_nothing").bits

BitOps ==
  {"enable_pixel", "disable_pixel", "enable_inj_row", "disable_inj_row",
   "enable_inj_col", "disable_inj_col"}

\* the bit the last call targets, and the key of the word it addresses
TargetBit ==
  CASE lastOp.op \in {"enable_pixel", "disable_pixel"} -> PixelBit(lastOp.row)
    [] lastOp.op \in {"enable_inj_row", "disable_inj_row"} -> InjRowMask
    [] OTHER -> InjColMask

TargetKey ==
  IF lastOp.op \in {"enable_inj_row", "disable_inj_row"}
  THEN ColKey(lastOp.row) ELSE ColKey(lastOp.col)

\* C21: a bit operation called with indices inside the geometry leaves the
\* model as it was but for the one bit it targets in the one word it
\* addresses: every other bit of that word, every other word and every other
\* block are the same as before the call.
C21_OneBitOfOneWord ==
  (lastOp.op \in BitOps /\ ~OutOfRange /\ ~lastOp.pre.none)
    => /\ ~asic_config.none
       /\ Len(asic_config.blocks) = Len(lastOp.pre.blocks)
       /\ \A b \in 1..Len(asic_config.blocks) :
            LET new == asic_config.blocks[b]
                old == lastOp.pre.blocks[b]
            IN /\ new.name = old.name
               /\ Len(new.fields) = Len(old.fields)
               /\ \A f \in 1..Len(new.fields) :
                    IF new.name = "recconfig" /\ old.fields[f].name = TargetKey
                    THEN /\ new.fields[f].name = old.fields[f].name
                         /\ new.fields[f].width = old.fields[f].width
                         /\ (new.fields[f].value \ old.fields[f].value) \subseteq TargetBit
                         /\ (old.fields[f].value \ new.fields[f].value) \subseteq TargetBit
                    ELSE new.fields[f] = old.fields[f]

\* the value the last call has to store when it reads word as the current one
Masked(word) ==
  CASE lastOp.op \in {"enable_pixel"} -> word \ PixelBit(lastOp.row)
    [] lastOp.op \in {"disable_inj_row"} -> word \ InjRowMask
    [] lastOp.op \in {"disable_inj_col"} -> word \ InjColMask
    [] OTHER -> word \cup TargetBit

\* C22: a bit operation called with indices inside the geometry on a column
\* that has no word in recconfig returns, and leaves under that column's key
\* the all-disabled default pattern with the operation's bit set or cleared
\* (stated for a geometry that the file gave, not the 35 x 35 of Asic.__init__).
C22_MissingKeyReadsDefault ==
  (/\ lastOp.op \in BitOps
   /\ ~OutOfRange
   /\ num_cols # DefaultCols
   /\ ~lastOp.pre.none
   /\ IndexOf(FieldsOf(lastOp.pre, "recconfig"), TargetKey) = 0)
    => /\ lastOp.err = "none"
       /\ Known(asic_config, "recconfig", TargetKey)
       /\ ValueOf(asic_config, "recconfig", TargetKey) = Masked(DefaultWord)

\* C23: an asic_init given an analog_col at or beyond the number of columns
\* (and no dac_setup) does not select a mux column: it returns, ends in its
\* push, and no word has its mux-select bit set.
C23_AnalogColBeyondGeometry ==
  (/\ lastOp.op = "asic_init"
   /\ lastOp.analog.some
   /\ lastOp.analog.v >= num_cols
   /\ lastOp.args.idac = None
   /\ ~asic_config.none)
    => /\ lastOp.err = "none"
       /\ EndedInPush
       /\ Count(lastOp.ev, "info_analog") = 0
       /\ \A w \in Words(asic_config) : AmpoutMask \cap w.value = {}

\* the structure of a model: its blocks in order, and in each block its
\* field names in order with their widths
Structure(cfg) ==
  [b \in 1..Len(cfg.blocks) |->
     [name |-> cfg.blocks[b].name,
      fields |-> [f \in 1..Len(cfg.blocks[b].fields) |->
                    <<cfg.blocks[b].fields[f].name, cfg.blocks[b].fields[f].width>>]]]

\* C24: on a session whose configuration is loaded, no override, pixel or
\* column operation, reset or push changes the blocks and their order, the
\* field names of a block and their order, or a field's width.
C24_StructureIsFixed ==
  [][/\ asic_config'.none = asic_config.none
     /\ Structure(asic_config') = Structure(asic_config)]_vars

\* three calls changed values in the pixel matrix and in a DAC block, the
\* last one an override that pushed
C24_Witness ==
  /\ budget = 0
  /\ lastOp.op = "update_asic_config"
  /\ lastOp.err = "none"
  /\ EndedInPush
  /\ asic_config # lastOp.pre
  /\ \E w \in Words(asic_config) : w.value # DefaultWord /\ w.value # DefaultWord \cup {38}
  /\ ValueOf(asic_config, "idacs", "blres") # {}

====
